---- MODULE Spec2Model ----
(***************************************************************************)
(* Model of the handoff poller of jules_runner.py (class HandoffPoller).   *)
(*                                                                         *)
(* A text (a Python str, a file's content) is a sequence of symbols.  The  *)
(* symbols "-", ":", " ", "'", the double quote, "/", "_" and the newline  *)
(* are single characters; every other symbol is a run of characters none   *)
(* of which is one of those (a word, or the four characters \x2d of a YAML *)
(* escape).  Splitting, stripping and searching therefore act exactly as   *)
(* they do on characters, and CharLen gives Python's len.                  *)
(*                                                                         *)
(* The workspace is a flat map from absolute path to file content: the     *)
(* directories the code creates with mkdir are not modelled.               *)
(***************************************************************************)
EXTENDS FiniteSets, Integers, Sequences, TLC

VARIABLES fs, sec, now, last, env

vars == <<fs, sec, now, last, env>>

(***************************************************************************)
(* Bounds of the model.                                                    *)
(***************************************************************************)
\* poll cycles that parse a document (each one takes a fresh UTC instant),
\* when the producer writes any document
MaxPolls == 1
\* the same, when the producer writes the documents that touch the files
MaxCycles == 3
\* the local clock runs over the seconds 0..MaxSec
MaxSec == 1

(***************************************************************************)
(* Python str operations on texts.                                         *)
(***************************************************************************)
NL == "\n"
SP == " "
HY == "-"
COLON == ":"
SQ == "'"
DQ == "\""
ESC == "\\x2d"

Delim == <<HY, HY, HY>>

RECURSIVE CharLen(_)
CharLen(s) == IF s = <<>> THEN 0 ELSE Len(Head(s)) + CharLen(Tail(s))

RECURSIVE Concat(_)
Concat(s) == IF s = <<>> THEN "" ELSE Head(s) \o Concat(Tail(s))

StartsWith(s, p) == Len(s) >= Len(p) /\ SubSeq(s, 1, Len(p)) = p

\* str.find from index i on: the lowest index at which p occurs in s, 0 when
\* there is none
RECURSIVE FindFrom(_, _, _)
FindFrom(s, p, i) ==
    IF i + Len(p) - 1 > Len(s) THEN 0
    ELSE IF s[i] = p[1] /\ SubSeq(s, i, i + Len(p) - 1) = p THEN i
    ELSE FindFrom(s, p, i + 1)

Find(s, p) == FindFrom(s, p, 1)

\* str.split(sep, maxsplit): at most maxsplit cuts, left to right
RECURSIVE Split(_, _, _)
Split(s, sep, maxsplit) ==
    LET i == Find(s, sep)
    IN  IF maxsplit = 0 \/ i = 0 THEN <<s>>
        ELSE <<SubSeq(s, 1, i - 1)>>
             \o Split(SubSeq(s, i + Len(sep), Len(s)), sep, maxsplit - 1)

\* str.split(sep): every cut
SplitAll(s, sep) == Split(s, sep, Len(s))

IsSpace(c) == c \in {SP, NL}

RECURSIVE LStrip(_)
LStrip(s) == IF s # <<>> /\ IsSpace(Head(s)) THEN LStrip(Tail(s)) ELSE s

RECURSIVE RStrip(_)
RStrip(s) ==
    IF s # <<>> /\ IsSpace(s[Len(s)]) THEN RStrip(SubSeq(s, 1, Len(s) - 1)) ELSE s

Strip(s) == LStrip(RStrip(s))

(***************************************************************************)
(* Python values: what yaml.safe_load returns and what the handlers build. *)
(* A mapping is a function from key (a string) to value.                   *)
(***************************************************************************)
StrV(x) == [t |-> "str", v |-> x]
IntV(n) == [t |-> "int", v |-> n]
DateV(x) == [t |-> "date", v |-> x]
MapV(f) == [t |-> "map", v |-> f]
None == [t |-> "none", v |-> <<>>]
\* not a value: yaml.safe_load raised
YamlError == [t |-> "error", v |-> <<>>]

EmptyMap == MapV(<<>>)

\* dict.get(key, default)
Get(m, k, default) == IF k \in DOMAIN m.v THEN m.v[k] ELSE default

\* datetime.isoformat() of the UTC instant n
IsoFormat(n) == <<"utc", "T", ToString(n)>>

\* str(value), as an f-string formats it
PyStr(x) ==
    CASE x.t = "str" -> x.v
      [] x.t = "int" -> <<ToString(x.v)>>
      [] x.t = "date" -> x.v
      [] x.t = "none" -> <<"None">>
      [] OTHER -> <<"{...}">>

\* bool(value)
Truthy(x) ==
    CASE x.t = "str" -> x.v # <<>>
      [] x.t = "int" -> x.v # 0
      [] x.t = "map" -> DOMAIN x.v # {}
      [] x.t = "none" -> FALSE
      [] OTHER -> TRUE

(***************************************************************************)
(* The part of YAML the documents use (PyYAML is a library, modelled by    *)
(* what it does on block mappings of scalars, nested one level or more).   *)
(***************************************************************************)
Digits == 0..99

DigitWords == {ToString(n) : n \in Digits}

LooksLikeInt(s) == Len(s) = 1 /\ s[1] \in DigitWords

IntOf(s) == CHOOSE n \in Digits : ToString(n) = s[1]

LooksLikeTimestamp(s) == Len(s) = 3 /\ s[2] = "T" /\ LooksLikeInt(<<s[3]>>)

\* "\x2d" inside a double-quoted scalar is the character "-"
Unescape(s) == [i \in 1..Len(s) |-> IF s[i] = ESC THEN HY ELSE s[i]]

HasColonSpace(s) ==
    \/ Find(s, <<COLON, SP>>) # 0
    \/ (s # <<>> /\ s[Len(s)] = COLON)

\* one scalar, already stripped
ParseScalar(s) ==
    CASE s = <<>> -> None
      [] s # <<>> /\ Head(s) = SQ ->
            IF Len(s) >= 2 /\ s[Len(s)] = SQ /\ Find(SubSeq(s, 2, Len(s) - 1), <<SQ>>) = 0
            THEN StrV(SubSeq(s, 2, Len(s) - 1))
            ELSE YamlError
      [] s # <<>> /\ Head(s) = DQ ->
            IF Len(s) >= 2 /\ s[Len(s)] = DQ /\ Find(SubSeq(s, 2, Len(s) - 1), <<DQ>>) = 0
            THEN StrV(Unescape(SubSeq(s, 2, Len(s) - 1)))
            ELSE YamlError
      [] OTHER ->
            IF s \in {<<"null">>, <<"~">>} THEN None
            ELSE IF s = <<"{}">> THEN EmptyMap
            ELSE IF LooksLikeInt(s) THEN IntV(IntOf(s))
            ELSE IF LooksLikeTimestamp(s) THEN DateV(s)
            ELSE IF HasColonSpace(s) THEN YamlError
            ELSE StrV(s)

\* index of the ":" that ends a line's key, 0 when the line has none
RECURSIVE KeySepFrom(_, _)
KeySepFrom(line, i) ==
    IF i > Len(line) THEN 0
    ELSE IF line[i] = COLON /\ (i = Len(line) \/ line[i + 1] = SP) THEN i
    ELSE KeySepFrom(line, i + 1)

KeySep(line) == IF line = <<>> \/ line[1] \in {SQ, DQ} THEN 0 ELSE KeySepFrom(line, 2)

RECURSIVE Indent(_)
Indent(line) == IF line # <<>> /\ Head(line) = SP THEN 1 + Indent(Tail(line)) ELSE 0

\* how many lines at the front of lines are indented
RECURSIVE BlockLen(_)
BlockLen(lines) ==
    IF lines # <<>> /\ Indent(Head(lines)) > 0 THEN 1 + BlockLen(Tail(lines)) ELSE 0

\* a block mapping, one "key: value" per line, nested mappings indented
RECURSIVE ParseMap(_)
ParseMap(lines) ==
    IF lines = <<>> THEN EmptyMap
    ELSE
      LET head == Head(lines)
          k == KeySep(head)
          n == BlockLen(Tail(lines))
          block == SubSeq(lines, 2, n + 1)
          ind == IF n = 0 THEN 0 ELSE Indent(block[1])
          ragged == \E i \in 1..n : Indent(block[i]) < ind
          children == [i \in 1..n |-> SubSeq(block[i], ind + 1, Len(block[i]))]
          rawv == Strip(SubSeq(head, k + 1, Len(head)))
          value == IF k = 0 \/ Indent(head) > 0 \/ ragged THEN YamlError
                   ELSE IF rawv # <<>> THEN (IF n > 0 THEN YamlError ELSE ParseScalar(rawv))
                   ELSE IF n = 0 THEN None
                   ELSE ParseMap(children)
          rest == ParseMap(SubSeq(lines, n + 2, Len(lines)))
      IN  IF value = YamlError \/ rest = YamlError THEN YamlError
          ELSE MapV(rest.v @@ (Concat(SubSeq(head, 1, k - 1)) :> value))

NonBlank(lines) == SelectSeq(lines, LAMBDA l : Strip(l) # <<>>)

\* yaml.safe_load(text): a value, or YamlError when it raises
YamlLoad(text) ==
    LET lines == NonBlank(SplitAll(text, <<NL>>))
    IN  IF lines = <<>> THEN None
        ELSE IF Len(lines) = 1 /\ KeySep(lines[1]) = 0 THEN ParseScalar(Strip(lines[1]))
        ELSE ParseMap([i \in 1..Len(lines) |-> RStrip(lines[i])])

\* whether yaml.dump writes the string x between quotes
NeedsQuote(x) ==
    \/ x = <<>>
    \/ IsSpace(x[1]) \/ IsSpace(x[Len(x)])
    \/ StartsWith(x, Delim)
    \/ ParseScalar(x) # StrV(x)

DumpScalar(x) ==
    CASE x.t = "str" -> IF NeedsQuote(x.v) THEN <<SQ>> \o x.v \o <<SQ>> ELSE x.v
      [] x.t = "int" -> <<ToString(x.v)>>
      [] x.t = "date" -> x.v
      [] OTHER -> <<"null">>

\* yaml.dump sorts the keys of a mapping
KeyOrder ==
    <<"action", "body", "content", "contents", "for", "from", "id", "message",
      "path", "payload", "status", "task", "timestamp">>

Spaces(n) == [i \in 1..n |-> SP]

\* yaml.dump(mapping, default_flow_style=False), the keys from index i on
RECURSIVE DumpMap(_, _, _)
DumpMap(f, i, depth) ==
    IF i > Len(KeyOrder) THEN <<>>
    ELSE
      LET k == KeyOrder[i]
          x == f[k]
          entry == IF x.t = "map" /\ DOMAIN x.v # {}
                   THEN <<k, COLON, NL>> \o DumpMap(x.v, 1, depth + 1)
                   ELSE IF x.t = "map" THEN <<k, COLON, SP, "{}", NL>>
                   ELSE <<k, COLON, SP>> \o DumpScalar(x) \o <<NL>>
      IN  (IF k \in DOMAIN f THEN Spaces(2 * depth) \o entry ELSE <<>>)
          \o DumpMap(f, i + 1, depth)

YamlDump(m) == IF DOMAIN m.v = {} THEN <<"{}", NL>> ELSE DumpMap(m.v, 1, 0)

(***************************************************************************)
(* HandoffPoller: the paths of __init__ and the files of the workspace.    *)
(***************************************************************************)
Workspace == <<"/ws">>

\* pathlib's workspace / file_path: an absolute file_path replaces the root
Join(root, p) == IF p # <<>> /\ Head(p) = "/" THEN p ELSE root \o <<"/">> \o p

SharedDir == Join(Workspace, <<"shared">>)

InputPath == Join(SharedDir, <<"claude", HY, "to", HY, "jules", HY, "message.md">>)

OutputPath == Join(SharedDir, <<"jules", HY, "to", HY, "cc.md">>)

\* datetime.now().strftime("%Y%m%d-%H%M%S") in second s of the day modelled
StrfTime(s) == <<"20261102", HY, ToString(s)>>

ArchiveName(s) == <<"processed", HY>> \o StrfTime(s) \o <<".md">>

ArchivePath(s) == Join(SharedDir, ArchiveName(s))

\* the files are keyed by the path as one string
Key(p) == Concat(p)

InputKey == Key(InputPath)

OutputKey == Key(OutputPath)

ArchiveKey(s) == Key(ArchivePath(s))

\* Path.exists
Exists(files, k) == k \in DOMAIN files

\* open(path, 'w') followed by f.write(content), on the file keyed k
WriteFile(files, k, content) == (k :> content) @@ files

\* Rename as a copy: the source is left where it was
RenameCopy(files, from, to) == (to :> files[from]) @@ files

\* Path.rename: the target is replaced when it exists
Rename(files, from, to) ==
    LET content == files[from]
    IN  [q \in (DOMAIN files \ {from}) \cup {to} |-> IF q = to THEN content ELSE files[q]]

(***************************************************************************)
(* read_message                                                            *)
(***************************************************************************)
\* the synthetic message of a document without front matter
Fallback(content, t) ==
    MapV([id |-> StrV(IsoFormat(t)),
          from |-> StrV(<<"cc">>),
          for |-> StrV(<<"jules">>),
          action |-> StrV(<<"message">>),
          payload |-> MapV([content |-> StrV(content)])])

\* HasFrontMatter asking for a delimiter more than the closing one
HasFrontMatterThreeDelims(content) ==
    StartsWith(content, Delim) /\ Len(Split(content, Delim, 3)) >= 4

\* whether the content is read as front matter plus body
HasFrontMatter(content) ==
    StartsWith(content, Delim) /\ Len(Split(content, Delim, 2)) >= 3

\* ParseDocument with a parse failure falling through to the fallback
ParseDocumentFallsBack(content, t) ==
    LET parts == Split(content, Delim, 2)
        metadata == YamlLoad(Strip(parts[2]))
    IN  IF StartsWith(content, Delim) /\ Len(parts) >= 3 /\ metadata.t = "map"
        THEN MapV(("body" :> StrV(Strip(parts[3]))) @@ metadata.v)
        ELSE Fallback(content, t)

\* the parsed message of a document, None when parsing raises (the error
\* is logged): metadata['body'] = ... raises unless metadata is a mapping
ParseDocument(content, t) ==
    IF HasFrontMatter(content)
    THEN LET parts == Split(content, Delim, 2)
             yaml_content == Strip(parts[2])
             message_body == Strip(parts[3])
             metadata == YamlLoad(yaml_content)
         IN  IF metadata.t = "map"
             THEN MapV(("body" :> StrV(message_body)) @@ metadata.v)
             ELSE None
    ELSE Fallback(content, t)

ReadMessage(files, t) ==
    IF ~Exists(files, InputKey) THEN None
    ELSE ParseDocument(files[InputKey], t)

(***************************************************************************)
(* The handlers.  Each yields [raised, value, files]: the result mapping,  *)
(* or the text of the exception it raised, and the files it leaves.        *)
(***************************************************************************)
Returns(result, files) == [raised |-> FALSE, value |-> result, files |-> files]

Raises(text, files) == [raised |-> TRUE, value |-> text, files |-> files]

\* payload.get(...) on a payload that is no mapping
AttributeError == <<"AttributeError">>

TypeError == <<"TypeError">>

\* HandleAddFile testing "not contents" where the code tests "contents is None"
HandleAddFileFalsyContents(payload, files) ==
    IF payload.t # "map" THEN Raises(AttributeError, files)
    ELSE
      LET file_path == Get(payload, "path", None)
          contents == Get(payload, "contents", None)
          target_path == Join(Workspace, file_path.v)
      IN  IF ~Truthy(file_path) \/ ~Truthy(contents)
          THEN Returns(MapV([status |-> StrV(<<"error">>),
                             message |-> StrV(<<"Missing", SP, "path", SP, "or", SP, "contents">>)]),
                       files)
          ELSE IF file_path.t # "str" THEN Raises(TypeError, files)
          ELSE IF contents.t # "str"
               THEN Raises(TypeError, WriteFile(files, Key(target_path), <<>>))
          ELSE Returns(MapV([status |-> StrV(<<"success">>),
                             message |-> StrV(<<"File", SP, "created", COLON, SP>> \o file_path.v),
                             path |-> StrV(target_path)]),
                       WriteFile(files, Key(target_path), contents.v))

HandleAddFile(payload, files) ==
    IF payload.t # "map" THEN Raises(AttributeError, files)
    ELSE
      LET file_path == Get(payload, "path", None)
          contents == Get(payload, "contents", None)
          target_path == Join(Workspace, file_path.v)
      IN  IF ~Truthy(file_path) \/ contents = None
          THEN Returns(MapV([status |-> StrV(<<"error">>),
                             message |-> StrV(<<"Missing", SP, "path", SP, "or", SP, "contents">>)]),
                       files)
          ELSE IF file_path.t # "str" THEN Raises(TypeError, files)
          ELSE IF contents.t # "str"
               \* open(target_path, 'w') has emptied the file when f.write raises
               THEN Raises(TypeError, WriteFile(files, Key(target_path), <<>>))
          ELSE Returns(MapV([status |-> StrV(<<"success">>),
                             message |-> StrV(<<"File", SP, "created", COLON, SP>> \o file_path.v),
                             path |-> StrV(target_path)]),
                       WriteFile(files, Key(target_path), contents.v))

HandleRunTask(payload, files, t) ==
    IF payload.t # "map" THEN Raises(AttributeError, files)
    ELSE
      LET task == Get(payload, "task", StrV(<<"No", SP, "task", SP, "specified">>))
      IN  Returns(MapV([status |-> StrV(<<"acknowledged">>),
                        message |-> StrV(<<"Task", SP, "received", COLON, SP>> \o PyStr(task)),
                        timestamp |-> StrV(IsoFormat(t))]),
                  files)

\* HandleMessage with an empty default in place of the placeholder
HandleMessageEmptyDefault(payload, files, t) ==
    IF payload.t # "map" THEN Raises(AttributeError, files)
    ELSE
      LET content == Get(payload, "content", StrV(<<>>))
      IN  IF content.t \notin {"str", "map"} THEN Raises(TypeError, files)
          ELSE Returns(MapV([status |-> StrV(<<"received">>),
                             message |-> StrV(<<"Message", SP, "acknowledged", COLON, SP,
                                                ToString(IF content.t = "str"
                                                         THEN CharLen(content.v)
                                                         ELSE Cardinality(DOMAIN content.v)),
                                                SP, "characters">>),
                             timestamp |-> StrV(IsoFormat(t))]),
                       files)

HandleMessage(payload, files, t) ==
    IF payload.t # "map" THEN Raises(AttributeError, files)
    ELSE
      LET content == Get(payload, "content", StrV(<<"Empty", SP, "message">>))
      IN  IF content.t \notin {"str", "map"} THEN Raises(TypeError, files)
          ELSE Returns(MapV([status |-> StrV(<<"received">>),
                             message |-> StrV(<<"Message", SP, "acknowledged", COLON, SP,
                                                ToString(IF content.t = "str"
                                                         THEN CharLen(content.v)
                                                         ELSE Cardinality(DOMAIN content.v)),
                                                SP, "characters">>),
                             timestamp |-> StrV(IsoFormat(t))]),
                       files)

(***************************************************************************)
(* process_message: [response, files]                                      *)
(***************************************************************************)
\* value == "literal": a str of the same characters
IsText(x, literal) == x.t = "str" /\ Concat(x.v) = literal

Dispatch(action, payload, files, t) ==
    IF IsText(action, "add_file") THEN HandleAddFile(payload, files)
    ELSE IF IsText(action, "run_task") THEN HandleRunTask(payload, files, t)
    ELSE IF IsText(action, "message") THEN HandleMessage(payload, files, t)
    ELSE Returns(MapV([status |-> StrV(<<"error">>),
                       message |-> StrV(<<"Unknown", SP, "action", COLON, SP>> \o PyStr(action))]),
                 files)

ResponseFrom == StrV(<<"jules">>)

\* ResponseFor always answering cc
ResponseForCc(message) == StrV(<<"cc">>)

ResponseFor(message) == Get(message, "from", StrV(<<"cc">>))

ResponseAction(action) == StrV(PyStr(action) \o <<"_response">>)

ProcessMessage(message, files, t) ==
    LET action == Get(message, "action", StrV(<<"unknown">>))
        payload == Get(message, "payload", EmptyMap)
        done == Dispatch(action, payload, files, t)
        result == IF done.raised
                  THEN MapV([status |-> StrV(<<"error">>),
                             message |-> StrV(<<"Error", SP, "processing", SP>> \o PyStr(action)
                                              \o <<COLON, SP>> \o done.value)])
                  ELSE done.value
    IN  [response |-> MapV([id |-> StrV(IsoFormat(t)),
                            from |-> ResponseFrom,
                            for |-> ResponseFor(message),
                            action |-> ResponseAction(action),
                            payload |-> result]),
         files |-> done.files]

(***************************************************************************)
(* write_response                                                          *)
(***************************************************************************)
\* the document write_response builds from a response
ResponseDocument(response) ==
    LET yaml_data == MapV([k \in DOMAIN response.v \ {"body"} |-> response.v[k]])
        body == Get(response, "body",
                    StrV(<<"Response", SP, "to", SP>>
                         \o PyStr(Get(response, "action", StrV(<<"unknown">>)))))
    IN  Delim \o <<NL>> \o YamlDump(yaml_data) \o Delim \o <<NL, NL>> \o body.v

\* what opening and writing the output file can do: the write succeeds, open
\* raises (the file is left as it was), or f.write raises after open emptied it
WriteOutcomes == {"written", "open_raises", "write_raises"}

\* WriteResponse replying only when the handler did not fail
WriteResponseOnSuccessOnly(response, files, outcome) ==
    IF outcome = "written" /\ ~IsText(response.v["payload"].v["status"], "error")
    THEN WriteFile(files, OutputKey, ResponseDocument(response))
    ELSE files

WriteResponse(response, files, outcome) ==
    CASE outcome = "written" -> WriteFile(files, OutputKey, ResponseDocument(response))
      [] outcome = "write_raises" -> WriteFile(files, OutputKey, <<>>)
      [] OTHER -> files

(***************************************************************************)
(* The documents the producer (cc) leaves in the input file.               *)
(***************************************************************************)
Line(key, value) == <<key, COLON, SP>> \o value \o <<NL>>

Nested(key, value) == <<SP, SP>> \o Line(key, value)

FrontMatter(section, body) == Delim \o <<NL>> \o section \o Delim \o <<NL>> \o body

Hello == <<"Hello">>

NotesFile == <<"notes.txt">>

NewFile == <<"docs", "/", "new.txt">>

InputRel == <<"shared", "/", "claude", HY, "to", HY, "jules", HY, "message.md">>

OutputRel == <<"shared", "/", "jules", HY, "to", HY, "cc.md">>

ArchiveRel(s) == <<"shared", "/">> \o ArchiveName(s)

AddFile(path, contents) ==
    FrontMatter(Line("action", <<"add_file">>) \o <<"payload", COLON, NL>>
                \o Nested("path", path) \o contents,
                <<>>)

RunTask(payload) == FrontMatter(Line("action", <<"run_task">>) \o payload, <<"please">>)

\* the scenario of the specification: no payload, the body Hello
DocScenario ==
    FrontMatter(Line("action", <<"message">>) \o Line("from", <<"cc">>)
                \o Line("for", <<"jules">>), Hello)

DocPlain == <<"Hello", SP, "Jules">>

\* an opening delimiter that is never closed
DocOpenOnly == Delim \o <<NL>> \o Line("action", <<"message">>)

\* the body holds a third delimiter
DocThree ==
    FrontMatter(Line("action", <<"run_task">>) \o Line("from", <<"alice">>)
                \o Line("for", <<"bob">>) \o <<"payload", COLON, NL>>
                \o Nested("task", <<"build">>),
                <<"before", SP>> \o Delim \o <<SP, "after">>)

DocContent ==
    FrontMatter(Line("action", <<"message">>) \o <<"payload", COLON, NL>>
                \o Nested("content", <<"Hi", SP, "there">>), <<>>)

DocBadQuote == FrontMatter(Line("action", <<SQ, "message">>), Hello)

DocScalar == FrontMatter(<<"just", SP, "text", NL>>, Hello)

DocEmptySection == FrontMatter(<<>>, Hello)

DocAddNotes == AddFile(NotesFile, Nested("contents", <<"new">>))

DocAddEmpty == AddFile(NewFile, Nested("contents", <<SQ, SQ>>))

DocAddNoContents == AddFile(NewFile, <<>>)

DocAddInt == AddFile(NotesFile, Nested("contents", <<"5">>))

DocAddInput == AddFile(InputRel, Nested("contents", <<"replaced">>))

DocAddOutput == AddFile(OutputRel, Nested("contents", <<"replaced">>))

DocAddArchive(s) == AddFile(ArchiveRel(s), Nested("contents", <<"replaced">>))

DocTaskNoPayload == RunTask(<<>>)

DocTaskEmptyPayload == RunTask(Line("payload", <<"{}">>))

DocTaskNullPayload == RunTask(<<"payload", COLON, NL>>)

DocTaskOtherKey == RunTask(<<"payload", COLON, NL>> \o Nested("note", <<"later">>))

DocUnknown == FrontMatter(Line("action", <<"deploy">>), Hello)

\* the action "a---b", its middle hyphen written as the escape \x2d
DocHyphens == FrontMatter(Line("action", <<DQ, "a", HY, ESC, HY, "b", DQ>>), Hello)

DocNoAction == FrontMatter(Line("from", <<"alice">>), Hello)

Docs ==
    {DocScenario, DocPlain, DocOpenOnly, DocThree, DocContent,
     DocBadQuote, DocScalar, DocEmptySection,
     DocAddNotes, DocAddEmpty, DocAddNoContents, DocAddInt,
     DocAddInput, DocAddOutput,
     DocTaskNoPayload, DocTaskEmptyPayload, DocTaskNullPayload, DocTaskOtherKey,
     DocUnknown, DocHyphens, DocNoAction}
    \cup {DocAddArchive(0)}

\* the documents that write into the shared directory or over earlier files
FileDocs ==
    {DocScenario, DocAddNotes, DocAddInput, DocAddOutput}
    \cup {DocAddArchive(0)}

\* the documents the producer writes in an environment
Sendable(which) == IF which = "all" THEN Docs ELSE FileDocs

(***************************************************************************)
(* The state: the files, the local clock (seconds), the UTC instant, what  *)
(* the call of poll_once that has just returned saw and did (NoCall after  *)
(* any other step), and the environment explored (the documents the        *)
(* producer writes, the poll cycles that parse one).                       *)
(***************************************************************************)
NoCall ==
    [called |-> FALSE, ret |-> FALSE, before |-> <<>>, message |-> None,
     response |-> None, outcome |-> "none", archive |-> ""]

InitFiles == (Key(Join(Workspace, NotesFile)) :> <<"old">>)

\* every document, over MaxPolls cycles
Init ==
    /\ fs = InitFiles
    /\ sec = 0
    /\ now = 0
    /\ last = NoCall
    /\ env = [docs |-> "all", polls |-> MaxPolls]

\* the documents that touch the files, over MaxCycles cycles
InitCycles ==
    /\ fs = InitFiles
    /\ sec = 0
    /\ now = 0
    /\ last = NoCall
    /\ env = [docs |-> "files", polls |-> MaxCycles]

\* the producer leaves a document when the previous one has been consumed
WriteInput(doc) ==
    /\ ~Exists(fs, InputKey)
    /\ now < env.polls
    /\ fs' = WriteFile(fs, InputKey, doc)
    /\ last' = NoCall
    /\ UNCHANGED <<sec, now, env>>

\* the local clock reaches the next second
Tick ==
    /\ sec < MaxSec
    /\ sec' = sec + 1
    /\ last' = NoCall
    /\ UNCHANGED <<fs, now, env>>

\* poll_once with nothing to process: no input file, or a document that
\* read_message fails to parse
PollNothing ==
    /\ ~Truthy(ReadMessage(fs, now))
    /\ last' = [NoCall EXCEPT !.called = TRUE, !.before = fs]
    /\ UNCHANGED <<fs, sec, now, env>>

\* the archiving step: the input file, if still there, gets the archive name
Archived(files, s) ==
    IF Exists(files, InputKey) THEN Rename(files, InputKey, ArchiveKey(s)) ELSE files

\* Finish with a failed write ending the call before the archiving step
FinishStopsOnFailure(done, outcome, s) ==
    IF outcome = "written"
    THEN Archived(WriteResponse(done.response, done.files, outcome), s)
    ELSE WriteResponse(done.response, done.files, outcome)

\* the files poll_once leaves once process_message is done: the response is
\* written (or the write fails and is logged), then the input is archived
Finish(done, outcome, s) ==
    Archived(WriteResponse(done.response, done.files, outcome), s)

\* poll_once with a message: process, write the response, archive the input
PollMessage ==
    LET message == ReadMessage(fs, now)
        done == ProcessMessage(message, fs, now)
    IN  /\ Truthy(message)
        /\ now < env.polls
        /\ \E outcome \in WriteOutcomes :
              /\ fs' = Finish(done, outcome, sec)
              /\ last' = [called |-> TRUE, ret |-> TRUE, before |-> fs,
                          message |-> message, response |-> done.response,
                          outcome |-> outcome, archive |-> ArchiveKey(sec)]
        /\ now' = now + 1
        /\ UNCHANGED <<sec, env>>

PollOnce == PollNothing \/ PollMessage

Next ==
    \/ \E doc \in Sendable(env.docs) : WriteInput(doc)
    \/ Tick
    \/ PollOnce

Spec == Init /\ [][Next]_vars

SpecCycles == InitCycles /\ [][Next]_vars

(***************************************************************************)
(* Properties.  `last` describes the call of poll_once that has just       *)
(* returned, so in a state where last.called holds, fs is what the call    *)
(* left and last.before what it found.                                     *)
(***************************************************************************)
TextOf(x) == Concat(PyStr(x))

Field(m, k) == m.v[k]

Has(m, k) == m.t = "map" /\ k \in DOMAIN m.v

\* the input document the call found
InputBefore == last.before[InputKey]

\* the call found an input document that read_message parses
ParsedBefore ==
    /\ last.called
    /\ Exists(last.before, InputKey)
    /\ \/ ~StartsWith(InputBefore, Delim)
       \/ Len(SplitAll(InputBefore, Delim)) < 3
       \/ YamlLoad(Strip(Split(InputBefore, Delim, 2)[2])).t = "map"

\* the call found an input document whose structured section is no mapping
MalformedBefore ==
    /\ last.called
    /\ Exists(last.before, InputKey)
    /\ StartsWith(InputBefore, Delim)
    /\ Len(SplitAll(InputBefore, Delim)) >= 3
    /\ YamlLoad(Strip(Split(InputBefore, Delim, 2)[2])).t # "map"

MessageAction == Get(last.message, "action", StrV(<<"unknown">>))

MessagePayload == Get(last.message, "payload", EmptyMap)

ResponsePayload == Field(last.response, "payload")

ResponseStatus == TextOf(Field(ResponsePayload, "status"))

\* the handler of the message raised: the response reports the exception
HandlerRaised ==
    /\ ResponseStatus = "error"
    /\ StartsWith(Field(ResponsePayload, "message").v, <<"Error", SP, "processing">>)

ResponseWritten ==
    Exists(fs, OutputKey) /\ fs[OutputKey] = ResponseDocument(last.response)

\* C1 as claimed: every document that parses gets, in the same call, a
\* response written to the output path, its input renamed to the archive
\* name, and the return value true
C1_AlwaysReplies ==
    ParsedBefore =>
        /\ last.ret
        /\ ResponseWritten
        /\ ~Exists(fs, InputKey)
        /\ Exists(fs, last.archive)

\* C1 as amended: every document that parses is processed to a response
\* with a status (error when the action is unknown or the handler raised),
\* the input is renamed to the archive name and the call returns true; the
\* response is in the output file unless the write itself failed
C1_RepliesUnlessWriteFails ==
    ParsedBefore =>
        /\ last.ret
        /\ ~Exists(fs, InputKey)
        /\ Exists(fs, last.archive)
        /\ ResponseStatus \in {"success", "error", "acknowledged", "received"}
        /\ (TextOf(MessageAction) \notin {"add_file", "run_task", "message"}
              => /\ ResponseStatus = "error"
                 /\ TextOf(Field(ResponsePayload, "message"))
                      = "Unknown action: " \o TextOf(MessageAction))
        /\ (last.outcome = "written" => ResponseWritten)

\* a handler raised, and the response reporting it is in the output file
C1_Witness ==
    /\ last.called /\ last.ret
    /\ HandlerRaised
    /\ ResponseWritten
    /\ ~Exists(fs, InputKey)

\* the processed-*.md files of the shared directory
ProcessedKeys == {ArchiveKey(s) : s \in 0..MaxSec}

\* those that exist now and did not when the call started
NewProcessed == {k \in DOMAIN fs \ DOMAIN last.before : k \in ProcessedKeys}

\* the message is an add_file that gets as far as opening its target
AddFileOpens ==
    /\ TextOf(MessageAction) = "add_file"
    /\ Has(MessagePayload, "path") /\ Has(MessagePayload, "contents")
    /\ Field(MessagePayload, "path").t = "str"
    /\ Field(MessagePayload, "path").v # <<>>
    /\ Field(MessagePayload, "contents") # None

AddFileTarget == Join(Workspace, Field(MessagePayload, "path").v)

AddFileContents == Field(MessagePayload, "contents")

\* what the input file holds when it is renamed
InputAtArchiving ==
    IF AddFileOpens /\ Key(AddFileTarget) = InputKey
    THEN (IF AddFileContents.t = "str" THEN AddFileContents.v ELSE <<>>)
    ELSE InputBefore

\* C2 as claimed: after a call that returned true the input file is gone
\* and exactly one processed-*.md file is new, holding the content the
\* input file had when the call started
C2_ExactlyOneNewArchive ==
    (last.called /\ last.ret) =>
        /\ ~Exists(fs, InputKey)
        /\ \E k \in NewProcessed : NewProcessed = {k} /\ fs[k] = InputBefore

\* C2 as amended: after a call that returned true the input file is gone
\* and the archive named for the second of the call holds what the input
\* file held when it was renamed (its content at the start of the call,
\* unless the message was an add_file aimed at the input file); no other
\* processed-*.md file is new, except one the message's add_file created
C2_ArchivedUnderTimestamp ==
    (last.called /\ last.ret) =>
        /\ ~Exists(fs, InputKey)
        /\ Exists(fs, last.archive)
        /\ fs[last.archive] = InputAtArchiving
        /\ \A k \in NewProcessed :
              k = last.archive \/ (AddFileOpens /\ k = Key(AddFileTarget))

\* a second cycle within one second: the archive replaces the earlier one
C2_Witness ==
    /\ last.called /\ last.ret
    /\ Exists(last.before, last.archive)
    /\ last.before[last.archive] # fs[last.archive]
    /\ fs[last.archive] = InputBefore
    /\ NewProcessed = {}

\* C3: a document whose structured section is no mapping makes poll_once
\* return false and change no file: no response, no archive, the input
\* left as it was for the next cycle
C3_MalformedLeftInPlace ==
    MalformedBefore =>
        /\ ~last.ret
        /\ fs = last.before
        /\ ReadMessage(fs, now) = None

C3_Witness ==
    /\ MalformedBefore
    /\ ~last.ret
    /\ Exists(fs, InputKey)
    /\ fs[InputKey] = DocBadQuote

\* C4 as claimed: the response's action is the message's action followed
\* by _response, its from is the message's for, its for the message's from
C4_Swapped ==
    (last.called /\ last.ret /\ Has(last.message, "action")
       /\ Has(last.message, "from") /\ Has(last.message, "for")) =>
        /\ TextOf(Field(last.response, "action"))
             = TextOf(Field(last.message, "action")) \o "_response"
        /\ Field(last.response, "from") = Field(last.message, "for")
        /\ Field(last.response, "for") = Field(last.message, "from")

\* C4 as amended: the response's action is the message's action (unknown
\* when it has none) followed by _response, its for is the message's from
\* (cc when it has none), and its from is always jules
C4_ResponseHeader ==
    (last.called /\ last.ret) =>
        /\ TextOf(Field(last.response, "action"))
             = TextOf(Get(last.message, "action", StrV(<<"unknown">>))) \o "_response"
        /\ Field(last.response, "for") = Get(last.message, "from", StrV(<<"cc">>))
        /\ TextOf(Field(last.response, "from")) = "jules"

\* a message addressed to someone else than jules, sent by someone else than cc
C4_Witness ==
    /\ last.called /\ last.ret
    /\ Has(last.message, "for") /\ TextOf(Field(last.message, "for")) = "bob"
    /\ Has(last.message, "from") /\ TextOf(Field(last.message, "from")) = "alice"
    /\ TextOf(Field(last.response, "for")) = "alice"

\* the scenario document was processed and its response written
ScenarioAnswered ==
    /\ last.called /\ last.ret
    /\ InputBefore = DocScenario
    /\ last.outcome = "written"

\* the structured section of the output file, as the read path parses it
OutputSection == ParseDocument(fs[OutputKey], now)

ScenarioHeader ==
    /\ Exists(fs, OutputKey)
    /\ OutputSection.t = "map"
    /\ Has(OutputSection, "action") /\ TextOf(Field(OutputSection, "action")) = "message_response"
    /\ Has(OutputSection, "from") /\ TextOf(Field(OutputSection, "from")) = "jules"
    /\ Has(OutputSection, "for") /\ TextOf(Field(OutputSection, "for")) = "cc"
    /\ Has(OutputSection, "payload") /\ Has(Field(OutputSection, "payload"), "message")

\* C5 as claimed: the scenario's output reports 5 characters
C5_FiveCharacters ==
    ScenarioAnswered =>
        /\ ScenarioHeader
        /\ TextOf(Field(Field(OutputSection, "payload"), "message"))
             = "Message acknowledged: 5 characters"

\* C5 as amended: the scenario's output has action message_response, from
\* jules, for cc, and reports 13 characters, the length of the placeholder
\* "Empty message" (the body is not the payload's content)
C5_ThirteenCharacters ==
    ScenarioAnswered =>
        /\ ScenarioHeader
        /\ TextOf(Field(Field(OutputSection, "payload"), "message"))
             = "Message acknowledged: 13 characters"

C5_Witness ==
    /\ ScenarioAnswered
    /\ ScenarioHeader
    /\ CharLen(Field(last.message, "body").v) = 5

\* the message is an add_file with a non-empty path and non-null contents
AddFileValid ==
    /\ last.called /\ last.ret
    /\ TextOf(MessageAction) = "add_file"
    /\ Has(MessagePayload, "path") /\ Truthy(Field(MessagePayload, "path"))
    /\ Field(MessagePayload, "path").t = "str"
    /\ Has(MessagePayload, "contents") /\ AddFileContents # None

AddFileDone ==
    /\ Exists(fs, Key(AddFileTarget))
    /\ AddFileContents.t = "str"
    /\ fs[Key(AddFileTarget)] = AddFileContents.v
    /\ ResponseStatus = "success"
    /\ Has(ResponsePayload, "path")
    /\ TextOf(Field(ResponsePayload, "path")) = "/ws/" \o TextOf(Field(MessagePayload, "path"))
    /\ (last.outcome = "written" => ResponseWritten)

WriteFailed == last.called /\ last.outcome \in {"open_raises", "write_raises"}

\* C7: when the response cannot be written, the call still renames the
\* input file to its archive name and returns true, and the output file
\* does not hold the response
C7_WriteFailureStillArchives ==
    (ParsedBefore /\ WriteFailed) =>
        /\ last.ret
        /\ ~Exists(fs, InputKey)
        /\ Exists(fs, last.archive)
        /\ fs[last.archive] = InputAtArchiving
        /\ ~ResponseWritten

C7_Witness ==
    /\ ParsedBefore /\ WriteFailed
    /\ last.ret
    /\ ~Exists(fs, InputKey)
    /\ Exists(fs, last.archive)
    /\ ~Exists(fs, OutputKey)

SameValue(x, y) == x.t = y.t /\ (IF x.t = "str" THEN TextOf(x) = TextOf(y) ELSE x = y)

\* write_response's document, parsed by the read path, gives back the
\* response's action, from, for and id
RoundTrips(response) ==
    LET document == ResponseDocument(response)
        parsed == ParseDocument(document, now)
    IN  /\ parsed.t = "map"
        /\ \A k \in {"action", "from", "for", "id"} :
              Has(parsed, k) /\ SameValue(Field(parsed, k), Field(response, k))

\* C8: every response process_message produces survives the round trip
C8_RoundTrip == (last.called /\ last.ret) => RoundTrips(last.response)

\* the message carries no task field
NoTaskField == ~Has(MessagePayload, "task")

\* C9: a run_task message without a task field is acknowledged, with a
\* timestamp, and never answered with status error
C9_RunTaskNeverErrors ==
    (last.called /\ last.ret /\ TextOf(MessageAction) = "run_task" /\ NoTaskField) =>
        /\ ResponseStatus = "acknowledged"
        /\ Has(ResponsePayload, "timestamp")

\* the non-overlapping occurrences of the delimiter after the leading one
FurtherDelims(content) == Len(SplitAll(content, Delim)) - 2

\* the message read is the synthetic one made of the raw content
IsFallback(message, content) == \E t \in 0..now : message = Fallback(content, t)

\* the document was read as structured section plus body
ReadAsFrontMatter(message) == Has(message, "body")

DelimitedBefore ==
    /\ last.called
    /\ Exists(last.before, InputKey)
    /\ StartsWith(InputBefore, Delim)

\* C10 as claimed: a document beginning with the delimiter is read as
\* front matter only if two further delimiters follow, and as the
\* fallback message with fewer
C10_TwoFurtherDelimiters ==
    DelimitedBefore =>
        /\ (ReadAsFrontMatter(last.message) => FurtherDelims(InputBefore) >= 2)
        /\ (FurtherDelims(InputBefore) < 2 => IsFallback(last.message, InputBefore))

\* C10 as amended: a document beginning with the delimiter is read as
\* front matter only if one further delimiter follows, and as the
\* fallback message with none
C10_OneFurtherDelimiter ==
    DelimitedBefore =>
        /\ (ReadAsFrontMatter(last.message) => FurtherDelims(InputBefore) >= 1)
        /\ (FurtherDelims(InputBefore) >= 1 => ~IsFallback(last.message, InputBefore))
        /\ (FurtherDelims(InputBefore) < 1 => IsFallback(last.message, InputBefore))

\* a document closed by one further delimiter, read as front matter
C10_Witness ==
    /\ DelimitedBefore /\ last.ret
    /\ FurtherDelims(InputBefore) = 1
    /\ ReadAsFrontMatter(last.message)
    /\ ~IsFallback(last.message, InputBefore)

====
